---- MODULE Spec2Model ----
(***************************************************************************)
(* json-log-formatter: the per-line transformation of                      *)
(* LogTransformer::transform_and_print (src/src/log_transformer.rs) and    *)
(* the stand-alone loop of main (src/src/main.rs).                         *)
(*                                                                         *)
(* Text is a sequence of one-character strings, so that len() and          *)
(* contains("\n") are computed on the text itself.  A JSON value is a      *)
(* tagged record, one tag per variant of serde_json::Value; an object is   *)
(* the sequence of its <<key, value>> entries in the map's iteration       *)
(* order.  The termcolor buffer is a sequence of (color, text) segments.   *)
(***************************************************************************)
EXTENDS Integers, Sequences, FiniteSets, TLC

VARIABLES
    program,      \* "jlf": a caller looping over transform_and_print; "main": main.rs
    cli,          \* the parsed command line (Config, or Args for main)
    transformer,  \* the LogTransformer built by LogTransformer::new (immutable)
    pc,           \* "reading" | "returned" | "panicked"
    line,         \* the input line of the current call: [text, json]
    walked,       \* what jql::walker answers on this line's value: [filter, jql]
    buffer,       \* the termcolor buffer as the call left it
    stdout,       \* what the call wrote to standard output (segments)
    stderr,       \* what the call wrote to standard error (segments)
    ret           \* "none" | "Ok" | "panic"

vars == <<program, cli, transformer, pc, line, walked, buffer, stdout, stderr, ret>>

----------------------------------------------------------------------------
(* Bounds of the model *)

\* spacing ranges over 0..MaxSpacing
MaxSpacing == 2

(* Program constants *)

MULTILINE_MESSAGE_THRESHOLD == 120
MULTILINE_FIELD_THRESHOLD == 120

----------------------------------------------------------------------------
(* Option and Result *)

None == [some |-> FALSE]
Some(x) == [some |-> TRUE, x |-> x]

Ok(v) == [ok |-> TRUE, v |-> v]
Err(why) == [ok |-> FALSE, why |-> why]

----------------------------------------------------------------------------
(* Text *)

NL == "\n"

RECURSIVE Repeat(_, _)
Repeat(c, n) == IF n <= 0 THEN <<>> ELSE <<c>> \o Repeat(c, n - 1)

Contains(s, c) == \E i \in 1..Len(s) : s[i] = c

RECURSIVE Concat(_)
Concat(ss) == IF ss = <<>> THEN <<>> ELSE Head(ss) \o Concat(Tail(ss))

T_msg == <<"m", "s", "g">>
T_message == <<"m", "e", "s", "s", "a", "g", "e">>
T_level == <<"l", "e", "v", "e", "l">>
T_ts == <<"t", "s">>
T_null == <<"N", "U", "L", "L">>
T_true == <<"t", "r", "u", "e">>
T_false == <<"f", "a", "l", "s", "e">>
T_fallback == <<"?", "?", "?">>
T_jlf_inner == <<"_", "j", "l", "f", "_", "i", "n", "n", "e", "r">>
T_pipe == <<"|">>

T_trace == <<"t", "r", "a", "c", "e">>
T_debug == <<"d", "e", "b", "u", "g">>
T_info == <<"i", "n", "f", "o">>
T_notice == <<"n", "o", "t", "i", "c", "e">>
T_warning == <<"w", "a", "r", "n", "i", "n", "g">>
T_error == <<"e", "r", "r", "o", "r">>
T_err == <<"e", "r", "r">>
T_critical == <<"c", "r", "i", "t", "i", "c", "a", "l">>
T_crit == <<"c", "r", "i", "t">>
T_fatal == <<"f", "a", "t", "a", "l">>
T_emerg == <<"e", "m", "e", "r", "g">>
T_emergency == <<"e", "m", "e", "r", "g", "e", "n", "c", "y">>
T_alert == <<"a", "l", "e", "r", "t">>

UpperCase == <<"A", "B", "C", "D", "E", "F", "G", "H", "I", "J", "K", "L", "M",
               "N", "O", "P", "Q", "R", "S", "T", "U", "V", "W", "X", "Y", "Z">>
LowerCase == <<"a", "b", "c", "d", "e", "f", "g", "h", "i", "j", "k", "l", "m",
               "n", "o", "p", "q", "r", "s", "t", "u", "v", "w", "x", "y", "z">>
WhiteSpace == {" ", "\t", "\n", "\r"}

\* str::to_lowercase
ToLowercase(s) ==
    [i \in 1..Len(s) |->
        IF \E j \in 1..26 : UpperCase[j] = s[i]
        THEN LowerCase[CHOOSE j \in 1..26 : UpperCase[j] = s[i]]
        ELSE s[i]]

\* str::trim
Trim(s) ==
    LET keep == {i \in 1..Len(s) : s[i] \notin WhiteSpace}
    IN  IF keep = {} THEN <<>>
        ELSE LET lo == CHOOSE i \in keep : \A j \in keep : i <= j
                 hi == CHOOSE i \in keep : \A j \in keep : j <= i
             IN  SubSeq(s, lo, hi)

Digits == <<"0", "1", "2", "3", "4", "5", "6", "7", "8", "9">>

\* the decimal text of an integer (serde_json::Number::to_string, i64::to_string)
RECURSIVE NatToString(_)
NatToString(n) ==
    IF n < 10 THEN <<Digits[n + 1]>>
    ELSE NatToString(n \div 10) \o <<Digits[(n % 10) + 1]>>

IntToString(n) == IF n < 0 THEN <<"-">> \o NatToString(0 - n) ELSE NatToString(n)

----------------------------------------------------------------------------
(* serde_json::Value *)

Null == [t |-> "Null"]
Bool(b) == [t |-> "Bool", b |-> b]
Number(n) == [t |-> "Number", n |-> n]
String(s) == [t |-> "String", s |-> s]
Array(a) == [t |-> "Array", a |-> a]
Object(o) == [t |-> "Object", o |-> o]

\* Value::as_object
AsObject(v) == IF v.t = "Object" THEN Some(v.o) ELSE None
\* Value::as_str
AsStr(v) == IF v.t = "String" THEN Some(v.s) ELSE None
\* Value::as_f64
AsF64(v) == IF v.t = "Number" THEN Some(v.n) ELSE None
\* Option::unwrap_or
UnwrapOr(opt, default) == IF opt.some THEN opt.x ELSE default

\* Map::get
MapGet(o, k) ==
    IF \E i \in 1..Len(o) : o[i][1] = k
    THEN Some(o[CHOOSE i \in 1..Len(o) : o[i][1] = k][2])
    ELSE None

\* Iterator::filter over a sequence, order kept
RECURSIVE FilterEntries(_, _)
FilterEntries(o, excluded) ==
    IF o = <<>> THEN <<>>
    ELSE IF Head(o)[1] \in excluded THEN FilterEntries(Tail(o), excluded)
    ELSE <<Head(o)>> \o FilterEntries(Tail(o), excluded)

----------------------------------------------------------------------------
(* Formatting of values *)

\* <str as Debug>::fmt: quoted, with quotes, backslashes and line breaks escaped
RECURSIVE EscapeDebug(_)
EscapeDebug(s) ==
    IF s = <<>> THEN <<>>
    ELSE (CASE Head(s) = "\n" -> <<"\\", "n">>
            [] Head(s) = "\"" -> <<"\\", "\"">>
            [] Head(s) = "\\" -> <<"\\", "\\">>
            [] OTHER -> <<Head(s)>>) \o EscapeDebug(Tail(s))

DebugStr(s) == <<"\"">> \o EscapeDebug(s) \o <<"\"">>

\* <Value as Debug>::fmt, <Vec<Value> as Debug>::fmt, <Map as Debug>::fmt
RECURSIVE DebugValue(_), DebugVec(_), DebugMap(_), DebugVecItems(_), DebugMapItems(_)
DebugValue(v) ==
    CASE v.t = "Null" -> <<"N", "u", "l", "l">>
      [] v.t = "Bool" -> <<"B", "o", "o", "l", "(">> \o (IF v.b THEN T_true ELSE T_false) \o <<")">>
      [] v.t = "Number" -> <<"N", "u", "m", "b", "e", "r", "(">> \o IntToString(v.n) \o <<")">>
      [] v.t = "String" -> <<"S", "t", "r", "i", "n", "g", "(">> \o DebugStr(v.s) \o <<")">>
      [] v.t = "Array" -> <<"A", "r", "r", "a", "y", " ">> \o DebugVec(v.a)
      [] v.t = "Object" -> <<"O", "b", "j", "e", "c", "t", " ">> \o DebugMap(v.o)

DebugVecItems(a) ==
    IF a = <<>> THEN <<>>
    ELSE DebugValue(Head(a))
         \o (IF Tail(a) = <<>> THEN <<>> ELSE <<",", " ">> \o DebugVecItems(Tail(a)))

DebugVec(a) == <<"[">> \o DebugVecItems(a) \o <<"]">>

DebugMapItems(o) ==
    IF o = <<>> THEN <<>>
    ELSE DebugStr(Head(o)[1]) \o <<":", " ">> \o DebugValue(Head(o)[2])
         \o (IF Tail(o) = <<>> THEN <<>> ELSE <<",", " ">> \o DebugMapItems(Tail(o)))

DebugMap(o) == <<"{">> \o DebugMapItems(o) \o <<"}">>

\* the match on the value of an extra field
FormatValue(v) ==
    CASE v.t = "Null" -> T_null
      [] v.t = "Bool" -> (IF v.b THEN T_true ELSE T_false)
      [] v.t = "Number" -> IntToString(v.n)
      [] v.t = "String" -> v.s
      [] v.t = "Array" -> DebugVec(v.a)
      [] v.t = "Object" -> DebugMap(v.o)

\* the (key, formatted value) pairs of the entries that are not excluded
ExtraFields(o, excluded) ==
    LET kept == FilterEntries(o, excluded)
    IN  [i \in 1..Len(kept) |-> <<kept[i][1], FormatValue(kept[i][2])>>]

Pad2(n) == IF n < 10 THEN <<"0">> \o NatToString(n) ELSE NatToString(n)
Pad4(n) == Repeat("0", 4 - Len(NatToString(n))) \o NatToString(n)

\* NaiveDateTime::from_timestamp(t as i64, 0) formatted with "%Y-%m-%d %r";
\* the local time zone is taken to be UTC, and t >= 0
FormatTimestamp(t) ==
    LET days == t \div 86400
        secs == t % 86400
        z == days + 719468
        era == z \div 146097
        doe == z - era * 146097
        yoe == (doe - doe \div 1460 + doe \div 36524 - doe \div 146096) \div 365
        doy == doe - (365 * yoe + yoe \div 4 - yoe \div 100)
        mp == (5 * doy + 2) \div 153
        d == doy - (153 * mp + 2) \div 5 + 1
        m == IF mp < 10 THEN mp + 3 ELSE mp - 9
        y == yoe + era * 400 + (IF m <= 2 THEN 1 ELSE 0)
        h24 == secs \div 3600
        h12 == IF h24 % 12 = 0 THEN 12 ELSE h24 % 12
    IN  Pad4(y) \o <<"-">> \o Pad2(m) \o <<"-">> \o Pad2(d) \o <<" ">>
        \o Pad2(h12) \o <<":">> \o Pad2((secs % 3600) \div 60) \o <<":">> \o Pad2(secs % 60)
        \o <<" ">> \o (IF h24 < 12 THEN <<"A", "M">> ELSE <<"P", "M">>)

\* the color of the level segment
LevelColor(level) ==
    LET l == ToLowercase(Trim(level))
    IN  CASE l \in {T_trace, T_debug} -> "Black"
          [] l \in {T_info, T_notice} -> "Blue"
          [] l = T_warning -> "Yellow"
          [] l \in {T_error, T_err, T_critical, T_crit, T_fatal, T_emerg, T_emergency, T_alert} -> "Red"
          [] OTHER -> "Black"

----------------------------------------------------------------------------
(* The termcolor buffer *)

\* write!(&mut buffer, ...) under the color last set with col!
Write(buf, color, text) == Append(buf, [color |-> color, text |-> text])

\* the text of a sequence of segments
RECURSIVE BufferText(_)
BufferText(buf) == IF buf = <<>> THEN <<>> ELSE Head(buf).text \o BufferText(Tail(buf))

\* BufferWriter::print: the buffer holds the segments as col! and write! asked for
\* them; with ColorChoice::Never they reach the terminal without color
PrintBuffer(disable_colors, buf) ==
    [i \in 1..Len(buf) |->
        [color |-> IF disable_colors THEN "None" ELSE buf[i].color, text |-> buf[i].text]]

\* println!("{}", line)
Println(text) == <<[color |-> "None", text |-> text \o <<NL>>]>>

----------------------------------------------------------------------------
(* Config and LogTransformer::new *)

\* Option<Vec<String>> into a HashSet
ToHashSet(opt) == IF opt.some THEN {opt.x[i] : i \in 1..Len(opt.x)} ELSE {}

\* mutant: the timestamp field name is not inserted
ExcludedFieldsWithoutTimestamp(config) ==
    ToHashSet(config.exclude_fields) \cup {config.message_field_name, config.level_field_name}

ExcludedFields(config) ==
    ToHashSet(config.exclude_fields)
        \cup {config.message_field_name, config.level_field_name, config.timestamp_field_name}

New(config) ==
    [message_field |-> config.message_field_name,
     level_field |-> config.level_field_name,
     timestamp_field |-> config.timestamp_field_name,
     excluded_fields |-> ExcludedFields(config),
     separator |-> config.separator,
     hide_extra_fields |-> config.hide_extra_fields,
     disable_colors |-> config.disable_colors,
     hide_non_json |-> config.hide_non_json,
     spacing |-> config.spacing,
     filter_levels |-> ToHashSet(config.filter_levels),
     multiline_fields |-> config.multiline_fields,
     jql |-> config.jql,
     jql_filter |-> config.jql_filter]

\* the command lines considered: clap's defaults, each option varied
Configs ==
    [message_field_name : {T_msg, T_message},
     level_field_name : {T_level},
     timestamp_field_name : {T_ts},
     exclude_fields : {None, Some(<<<<"a">>>>), Some(<<T_jlf_inner>>)},
     separator : {T_pipe},
     hide_extra_fields : BOOLEAN,
     disable_colors : BOOLEAN,
     hide_non_json : BOOLEAN,
     spacing : 0..MaxSpacing,
     filter_levels : {None, Some(<<T_error>>)},
     multiline_fields : BOOLEAN,
     jql : {None, Some(<<"q">>)},
     jql_filter : {None, Some(<<"f">>)}]

----------------------------------------------------------------------------
(* transform_and_print *)

\* where a call ends: its result, the buffer at that point, what reached stdout
Returned(buf, out) == [ret |-> "Ok", buffer |-> buf, stdout |-> out]
\* mutant: the buffer is printed before the early return
DroppedAfterPrint(buf) == Returned(buf, buf)

\* a drop: the function returns Ok(()) and the buffer is never printed
Dropped(buf) == Returned(buf, <<>>)
Panicked(buf) == [ret |-> "panic", buffer |-> buf, stdout |-> <<>>]

\* why.contains("not found on the parent element"); an error is a sequence of words
NotFoundOnParent(why) == \E i \in 1..Len(why) : why[i] = "not found on the parent element"

\* one extra field in the buffer
WriteField(self, buf, k, v) ==
    IF self.multiline_fields
    THEN LET b1 == Write(Write(Write(buf, "Black", <<NL>>), "Black", <<" ", " ">>), "Green", k)
         IN  IF Len(v) > MULTILINE_FIELD_THRESHOLD \/ Contains(v, NL)
             THEN Write(Write(Write(b1, "Black", <<":", NL>>), "Black", v), "Black", <<NL>>)
             ELSE Write(Write(b1, "Black", <<"=">>), "Black", v)
    ELSE Write(Write(Write(Write(buf, "Black", <<" ">> \o self.separator \o <<" ">>),
                           "Green", k), "Black", <<"=">>), "Black", v)

RECURSIVE WriteFields(_, _, _)
WriteFields(self, buf, fields) ==
    IF fields = <<>> THEN buf
    ELSE WriteFields(self, WriteField(self, buf, Head(fields)[1], Head(fields)[2]), Tail(fields))

\* the newline that ends the record, the spacing, and the print
Finish(self, buf) ==
    LET b == Write(buf, "Black", <<NL>>)
        spaced == b \o [i \in 1..self.spacing |-> [color |-> "Black", text |-> <<NL>>]]
    IN  Returned(spaced, PrintBuffer(self.disable_colors, spaced))

\* mutant: an answer that is no object is taken to have no fields
QueryResultUnwrapped(qr) == IF qr.t = "Object" THEN qr ELSE Object(<<>>)

\* the value whose entries are the extra fields, from the answer of the jql query
QueryResult(qr) == IF qr.t = "Object" THEN qr ELSE Object(<<<<T_jlf_inner, qr>>>>)

\* the jql_filter gate: any error drops the record
FilterGate(self, w, buf, rest) ==
    IF self.jql_filter.some /\ ~w.filter.ok THEN Dropped(buf) ELSE rest

\* the block guarded by !hide_extra_fields, then the end of the record
Extras(self, val, w, buf) ==
    FilterGate(self, w, buf,
        IF self.jql.some
        THEN IF w.jql.ok
             THEN Finish(self, WriteFields(self, buf,
                      ExtraFields(QueryResult(w.jql.v).o, self.excluded_fields)))
             ELSE IF w.jql.why = <<"Empty group">> THEN Dropped(buf)
             ELSE IF NotFoundOnParent(w.jql.why) THEN Dropped(buf)
             ELSE Panicked(buf)
        ELSE Finish(self, WriteFields(self, buf, ExtraFields(val.o, self.excluded_fields))))

\* the timestamp, level and message segments
Prefix(self, time, level, message) ==
    LET b0 == IF time.some
              THEN Write(<<>>, "Magenta", <<"[">> \o FormatTimestamp(time.x) \o <<"]">>)
              ELSE <<>>
        b1 == Write(b0, LevelColor(level), <<"[">> \o level \o <<"]", " ">>)
        b2 == Write(b1, "Black", message)
    IN  IF Len(message) > MULTILINE_MESSAGE_THRESHOLD /\ ~self.multiline_fields
        THEN Write(b2, "Black", <<NL>>)
        ELSE b2

\* the level filter
LevelFiltered(self, level) == self.filter_levels # {} /\ level \notin self.filter_levels

\* the Some(obj) arm
TransformObject(self, val, w) ==
    LET m == MapGet(val.o, self.message_field)
        l == MapGet(val.o, self.level_field)
        ts == MapGet(val.o, self.timestamp_field)
    IN  IF ~m.some \/ ~l.some THEN Panicked(<<>>)
        ELSE LET message == UnwrapOr(AsStr(m.x), T_fallback)
                 level == UnwrapOr(AsStr(l.x), T_fallback)
             IN  IF LevelFiltered(self, level) THEN Dropped(<<>>)
                 ELSE IF ~ts.some THEN Panicked(<<>>)
                 ELSE LET buf == Prefix(self, AsF64(ts.x), level, message)
                      IN  IF ~self.hide_extra_fields THEN Extras(self, val, w, buf)
                          ELSE Finish(self, buf)

\* mutant: hide_non_json is not consulted
PassThroughAlways(self, l) == Returned(<<>>, Println(l.text))

\* the None arm and the Err arm: the line itself, unless hidden
PassThrough(self, l) ==
    IF ~self.hide_non_json THEN Returned(<<>>, Println(l.text)) ELSE Returned(<<>>, <<>>)

\* serde_json::from_str::<Value>(&line)
FromStr(l) == l.json

TransformAndPrintResult(self, l, w) ==
    LET json_value == FromStr(l)
    IN  IF json_value.ok
        THEN IF AsObject(json_value.v).some
             THEN TransformObject(self, json_value.v, w)
             ELSE PassThrough(self, l)
        ELSE PassThrough(self, l)

----------------------------------------------------------------------------
(* The loop of main *)

\* the color of the level segment in main: no trim, no lowercase
MainLevelColor(level) ==
    CASE level \in {T_trace, T_debug} -> "Black"
      [] level = T_info -> "Blue"
      [] level = T_warning -> "Yellow"
      [] level \in {T_error, T_critical} -> "Red"
      [] OTHER -> "Black"

RECURSIVE MainWriteFields(_, _, _)
MainWriteFields(separator, buf, fields) ==
    IF fields = <<>> THEN buf
    ELSE MainWriteFields(separator,
             Write(Write(Write(Write(buf, "Black", <<" ">> \o separator \o <<" ">>),
                               "Green", Head(fields)[1]), "Black", <<"=">>),
                   "Black", Head(fields)[2]),
             Tail(fields))

\* one iteration of the loop over stdin: [ret, buffer, stdout, stderr]
MainLineResult(args, l) ==
    LET parsed == FromStr(l)
        raw == [ret |-> "Ok", buffer |-> <<>>, stdout |-> Println(l.text), stderr |-> <<>>]
        panic == [ret |-> "panic", buffer |-> <<>>, stdout |-> <<>>, stderr |-> <<>>]
    IN  IF ~parsed.ok THEN raw
        ELSE IF ~AsObject(parsed.v).some THEN raw
        ELSE LET obj == parsed.v.o
                 m == MapGet(obj, args.message_field)
                 lv == MapGet(obj, args.level_field)
                 ts == MapGet(obj, args.timestamp_field)
             IN  IF ~m.some \/ ~lv.some \/ ~ts.some THEN panic
                 ELSE LET message == UnwrapOr(AsStr(m.x), T_fallback)
                          level == UnwrapOr(AsStr(lv.x), T_fallback)
                          time == AsF64(ts.x)
                          extra_fields == ExtraFields(obj, args.excluded_fields)
                          b0 == IF time.some
                                THEN Write(<<>>, "Magenta",
                                           <<"[">> \o FormatTimestamp(time.x) \o <<"]">>)
                                ELSE <<>>
                          b1 == Write(b0, MainLevelColor(level), <<"[">> \o level \o <<"]", " ">>)
                          b2 == Write(b1, "Black", message)
                          b3 == MainWriteFields(args.separator, b2, extra_fields)
                          b4 == Write(b3, "Black", <<NL>>)
                      IN  [ret |-> "Ok", buffer |-> b4, stdout |-> <<>>, stderr |-> b4]

----------------------------------------------------------------------------
(* Inputs *)

LongText == Repeat("x", MULTILINE_MESSAGE_THRESHOLD + 1)

Entry(k, opt) == IF opt.some THEN <<<<k, opt.x>>>> ELSE <<>>

\* an object with the three named fields (each optional) and further entries
\* before and after them
MkObject(before, m, l, t, after) ==
    Object(before \o Entry(T_level, l) \o Entry(T_msg, m) \o Entry(T_ts, t) \o after)

S_hi == String(<<"h", "i">>)
S_info == String(T_info)
A1 == <<<<"a">>, Number(1)>>
Bx == <<<<"b">>, String(<<"x">>)>>

MessageValues == {None, Some(S_hi), Some(Number(5)), Some(String(LongText))}
LevelValues == {None, Some(S_info), Some(String(T_error)), Some(String(<<"E", "r", "r", "o", "r", " ">>)),
                Some(Bool(TRUE))}
TimestampValues == {None, Some(Number(0)), Some(Number(1000)), Some(String(<<"n", "o", "w">>))}
AfterEntries ==
    {<<>>,
     <<A1, Bx>>,
     <<Bx, A1>>,
     <<A1, <<<<"c">>, String(<<"x", NL, "y">>)>>>>,
     <<<<<<"d">>, Null>>, <<<<"e">>, Bool(FALSE)>>,
       <<<<"f">>, Array(<<Number(1), String(<<"x">>)>>)>>, <<<<"g">>, Object(<<A1>>)>>>>,
     <<<<<<"w">>, String(LongText)>>>>,
     <<<<T_jlf_inner, Number(2)>>, Bx>>}

Objects ==
    {MkObject(<<>>, m, Some(S_info), Some(Number(1000)), <<A1, Bx>>) : m \in MessageValues}
    \cup {MkObject(<<>>, Some(S_hi), l, Some(Number(1000)), <<A1, Bx>>) : l \in LevelValues}
    \cup {MkObject(<<>>, Some(S_hi), Some(S_info), t, <<A1, Bx>>) : t \in TimestampValues}
    \cup {MkObject(<<>>, Some(S_hi), Some(S_info), Some(Number(1000)), e) : e \in AfterEntries}
    \cup {MkObject(<<Bx>>, Some(S_hi), Some(String(T_error)), Some(Number(0)), <<A1>>),
          MkObject(<<>>, Some(String(LongText)), Some(S_info), Some(Number(1000)), <<>>),
          MkObject(<<>>, None, None, None, <<A1>>),
          MkObject(<<<<T_message, S_hi>>>>, None, Some(S_info), Some(Number(86399)), <<Bx>>)}

\* the lines read: what serde_json::from_str makes of a line is part of the input
Lines ==
    {[text |-> <<"{", "}">>, json |-> Ok(o)] : o \in Objects}
    \cup {[text |-> <<"p", "l", "a", "i", "n", " ", "t", "e", "x", "t">>, json |-> Err(<<"expected value">>)],
          [text |-> <<>>, json |-> Err(<<"EOF while parsing a value">>)],
          [text |-> <<"[", "1", "]">>, json |-> Ok(Array(<<Number(1)>>))],
          [text |-> <<"5">>, json |-> Ok(Number(5))]}

\* the answers of jql::walker
E_empty == Err(<<"Empty group">>)
E_absent == Err(<<"Node \"a\"", "not found on the parent element">>)
E_syntax == Err(<<"Error, unable to parse invalid selectors">>)
NotWalked == Err(<<"no query">>)

FilterAnswers == {Ok(Bool(TRUE)), E_empty, E_absent, E_syntax}
JqlAnswers ==
    {Ok(Object(<<<<<<"z">>, Number(3)>>, <<T_msg, String(<<"o">>)>>, A1>>)),
     Ok(Number(7)),
     Ok(String(<<"s", NL>>)),
     E_empty, E_absent, E_syntax}

\* jql::walker(val, query) for the two queries of the transformer
Walks(self, l) ==
    IF l.json.ok /\ AsObject(l.json.v).some
    THEN [filter : IF self.jql_filter.some THEN FilterAnswers ELSE {NotWalked},
          jql : IF self.jql.some THEN JqlAnswers ELSE {NotWalked}]
    ELSE {[filter |-> NotWalked, jql |-> NotWalked]}

\* main takes only the field names, the exclusions and the separator
MainConfigs ==
    {c \in Configs : /\ ~c.hide_extra_fields /\ ~c.disable_colors /\ ~c.hide_non_json /\ ~c.multiline_fields
                     /\ c.spacing = 0 /\ ~c.filter_levels.some
                     /\ ~c.jql.some /\ ~c.jql_filter.some}

----------------------------------------------------------------------------
(* The state machine *)

NoLine == [text |-> <<>>, json |-> Err(<<"no line">>)]
NoWalk == [filter |-> NotWalked, jql |-> NotWalked]

Init ==
    /\ program \in {"jlf", "main"}
    /\ cli \in Configs
    /\ program = "main" => cli \in MainConfigs
    /\ transformer = New(cli)
    /\ pc = "reading"
    /\ line = NoLine
    /\ walked = NoWalk
    /\ buffer = <<>>
    /\ stdout = <<>>
    /\ stderr = <<>>
    /\ ret = "none"

\* a line is read and handed to transform_and_print
TransformAndPrint ==
    /\ program = "jlf"
    /\ pc = "reading"
    /\ \E l \in Lines : \E w \in Walks(transformer, l) :
          LET r == TransformAndPrintResult(transformer, l, w)
          IN  /\ line' = l
              /\ walked' = w
              /\ buffer' = r.buffer
              /\ stdout' = r.stdout
              /\ ret' = r.ret
              /\ pc' = IF r.ret = "panic" THEN "panicked" ELSE "returned"
    /\ UNCHANGED <<program, cli, transformer, stderr>>

\* one iteration of main's loop
MainLine ==
    /\ program = "main"
    /\ pc = "reading"
    /\ \E l \in Lines :
          LET r == MainLineResult(transformer, l)
          IN  /\ line' = l
              /\ buffer' = r.buffer
              /\ stdout' = r.stdout
              /\ stderr' = r.stderr
              /\ ret' = r.ret
              /\ pc' = IF r.ret = "panic" THEN "panicked" ELSE "returned"
    /\ UNCHANGED <<program, cli, transformer, walked>>

\* the loop goes on to the next line; the buffer of the call is gone
NextLine ==
    /\ pc = "returned"
    /\ pc' = "reading"
    /\ line' = NoLine
    /\ walked' = NoWalk
    /\ buffer' = <<>>
    /\ stdout' = <<>>
    /\ stderr' = <<>>
    /\ ret' = "none"
    /\ UNCHANGED <<program, cli, transformer>>

Next == TransformAndPrint \/ MainLine \/ NextLine

Spec == Init /\ [][Next]_vars

----------------------------------------------------------------------------
(* Vocabulary of the properties *)

\* transform_and_print has just been called on `line`
Called == program = "jlf" /\ pc \in {"returned", "panicked"}
IsObjectLine == line.json.ok /\ line.json.v.t = "Object"
HasField(k) == \E i \in 1..Len(line.json.v.o) : line.json.v.o[i][1] = k
FieldValue(k) == line.json.v.o[CHOOSE i \in 1..Len(line.json.v.o) : line.json.v.o[i][1] = k][2]
NamedFieldsPresent ==
    /\ HasField(cli.message_field_name)
    /\ HasField(cli.level_field_name)
    /\ HasField(cli.timestamp_field_name)

\* the string a field extractor with fallback yields for field k
Extracted(k) ==
    IF HasField(k) /\ FieldValue(k).t = "String" THEN FieldValue(k).s ELSE T_fallback

LevelAllowed ==
    ~cli.filter_levels.some
    \/ \E i \in 1..Len(cli.filter_levels.x) :
          cli.filter_levels.x[i] = Extracted(cli.level_field_name)

Out == BufferText(stdout)
\* a rendered block was written for an object record
Rendered == Called /\ IsObjectLine /\ ret = "Ok" /\ stdout # <<>>

HasTimestampSegment == buffer # <<>> /\ buffer[1].color = "Magenta"
LevelIndex == IF HasTimestampSegment THEN 2 ELSE 1
LevelSegment == buffer[LevelIndex].text
MessageSegment == buffer[LevelIndex + 1].text

RECURSIVE TrailingNewlines(_)
TrailingNewlines(s) ==
    IF s = <<>> \/ s[Len(s)] # NL THEN 0 ELSE 1 + TrailingNewlines(SubSeq(s, 1, Len(s) - 1))

\* the entries of an object whose keys are outside a set, in order
Keeping(o, drop) == SelectSeq(o, LAMBDA e : e[1] \notin drop)

\* the text of the extra fields as section 4.6 of the specification lays them out
ExpectedField(k, v) ==
    IF cli.multiline_fields
    THEN IF Len(v) > MULTILINE_FIELD_THRESHOLD \/ Contains(v, NL)
         THEN <<NL, " ", " ">> \o k \o <<":", NL>> \o v \o <<NL>>
         ELSE <<NL, " ", " ">> \o k \o <<"=">> \o v
    ELSE <<" ">> \o cli.separator \o <<" ">> \o k \o <<"=">> \o v

ExpectedExtras(entries) ==
    Concat([i \in 1..Len(entries) |-> ExpectedField(entries[i][1], FormatValue(entries[i][2]))])

\* the text written before the extra fields: timestamp, level, message, and the
\* line break after a long message
HeadText ==
    BufferText(SubSeq(buffer, 1, LevelIndex + 1))
    \o (IF Len(MessageSegment) > MULTILINE_MESSAGE_THRESHOLD /\ ~cli.multiline_fields
        THEN <<NL>> ELSE <<>>)

UserExcluded == ToHashSet(cli.exclude_fields)
NamedFields ==
    {cli.message_field_name, cli.level_field_name, cli.timestamp_field_name}

----------------------------------------------------------------------------
(* Properties *)

\* C1: an object line without the configured level field (or message field) is
\* handled without failure, and when it is rendered the level segment (the
\* message text) is the fallback "???"; likewise when the field is no string.
C1_FallbackForAbsentField ==
    (Called /\ IsObjectLine
        /\ (~HasField(cli.level_field_name) \/ ~HasField(cli.message_field_name)))
    => /\ ret = "Ok"
       /\ stdout # <<>> =>
            /\ ~HasField(cli.level_field_name) => LevelSegment = <<"[">> \o T_fallback \o <<"]", " ">>
            /\ ~HasField(cli.message_field_name) => MessageSegment = T_fallback

\* C2: an object record with message and level fields that passes the level
\* filter and whose timestamp field is absent or no number is still processed
\* without failure, and is rendered without a timestamp segment.
C2_AbsentTimestampDegrades ==
    (Called /\ IsObjectLine
        /\ HasField(cli.message_field_name) /\ HasField(cli.level_field_name)
        /\ LevelAllowed
        /\ (~HasField(cli.timestamp_field_name)
            \/ FieldValue(cli.timestamp_field_name).t # "Number"))
    => /\ ret = "Ok"
       /\ stdout # <<>> => ~HasTimestampSegment

\* C3: an object record whose level is a string outside a non-empty filter_levels
\* produces no output and the call returns normally.
C3_FilteredLevelReturnsSilently ==
    (Called /\ IsObjectLine
        /\ HasField(cli.level_field_name)
        /\ ~LevelAllowed)
    => stdout = <<>> /\ ret = "Ok"

\* C4: with a jql_filter configured, a record on which the query answers
\* "Empty group" produces no output, whatever the other options are.
C4_EmptyGateDropsRecord ==
    (Called /\ IsObjectLine /\ cli.jql_filter.some /\ walked.filter = E_empty)
    => stdout = <<>>

\* C5: a configured query (jql or jql_filter) whose evaluation fails for a reason
\* other than "Empty group" or "not found on the parent element" aborts the
\* process, for every record that gets past extraction and the level filter.
C5_MalformedQueryIsFatal ==
    (Called /\ IsObjectLine /\ NamedFieldsPresent /\ LevelAllowed
        /\ \/ cli.jql.some /\ walked.jql = E_syntax
           \/ cli.jql_filter.some /\ walked.filter = E_syntax)
    => ret = "panic"

\* C6: a line that is not JSON, or is JSON but not an object, is written as it is
\* followed by one newline when hide_non_json is false and produces no output
\* when it is true; the call returns Ok in both cases.
C6_NonObjectPassThrough ==
    (Called /\ ~IsObjectLine)
    => /\ ret = "Ok"
       /\ Out = IF cli.hide_non_json THEN <<>> ELSE line.text \o <<NL>>

C6_Witness ==
    /\ Called /\ line.json.ok /\ ~IsObjectLine
    /\ ~cli.hide_non_json /\ cli.spacing = 2
    /\ Out = <<"[", "1", "]", NL>>

\* no string of the record or of the query's answer holds a line break
NoLineBreakInData ==
    /\ ~Contains(Extracted(cli.message_field_name), NL)
    /\ \A i \in 1..Len(line.json.v.o) : ~Contains(FormatValue(line.json.v.o[i][2]), NL)
    /\ walked.jql.ok =>
          \A i \in 1..Len(QueryResult(walked.jql.v).o) :
              ~Contains(FormatValue(QueryResult(walked.jql.v).o[i][2]), NL)

\* C7: a rendered record ends with exactly one newline followed by exactly
\* `spacing` blank lines (here for records whose data holds no line break).
C7_ExactlySpacingBlankLines ==
    (Rendered /\ NoLineBreakInData) => TrailingNewlines(Out) = 1 + cli.spacing

\* C8: inline, with no query and extra fields shown, the extra-field block is one
\* "<separator> key=value" per top-level key that is neither a user exclusion nor
\* the message, level or timestamp field name, in the object's iteration order.
C8_InlineExtrasInOrder ==
    (Rendered /\ ~cli.multiline_fields /\ ~cli.hide_extra_fields
        /\ ~cli.jql.some /\ ~cli.jql_filter.some)
    => Out = HeadText
             \o ExpectedExtras(Keeping(line.json.v.o, UserExcluded \cup NamedFields))
             \o Repeat(NL, 1 + cli.spacing)

C8_Witness ==
    /\ Rendered /\ ~cli.multiline_fields /\ ~cli.hide_extra_fields
    /\ ~cli.jql.some /\ ~cli.jql_filter.some
    /\ cli.exclude_fields = Some(<<<<"a">>>>)
    /\ Len(line.json.v.o) = 5
    /\ line.json.v.o[1][1] = <<"b">>
    /\ Len(Keeping(line.json.v.o, UserExcluded \cup NamedFields)) = 1

\* the message, level and timestamp segments are those of the original record
NamedSegmentsFromRecord ==
    /\ LevelSegment = <<"[">> \o Extracted(cli.level_field_name) \o <<"]", " ">>
    /\ MessageSegment = Extracted(cli.message_field_name)
    /\ HasTimestampSegment <=> FieldValue(cli.timestamp_field_name).t = "Number"
    /\ HasTimestampSegment =>
          buffer[1].text
              = <<"[">> \o FormatTimestamp(FieldValue(cli.timestamp_field_name).n) \o <<"]">>

SelectEvaluated == Rendered /\ cli.jql.some /\ ~cli.hide_extra_fields /\ walked.jql.ok

\* C9 as stated: when the jql query answers with a value, the extra fields are the
\* answer's entries minus the excluded ones if it is an object, and otherwise
\* exactly one field under the key _jlf_inner.
C9_SelectReplacesExtras ==
    SelectEvaluated
    => /\ NamedSegmentsFromRecord
       /\ Out = HeadText
                \o ExpectedExtras(IF walked.jql.v.t = "Object"
                                  THEN Keeping(walked.jql.v.o, UserExcluded \cup NamedFields)
                                  ELSE <<<<T_jlf_inner, walked.jql.v>>>>)
                \o Repeat(NL, 1 + cli.spacing)

\* C9 amended: the field under _jlf_inner is subject to the exclusions like any
\* other: it is rendered unless _jlf_inner is itself an excluded field.
C9_SelectReplacesExtrasAmended ==
    SelectEvaluated
    => /\ NamedSegmentsFromRecord
       /\ Out = HeadText
                \o ExpectedExtras(Keeping(IF walked.jql.v.t = "Object"
                                          THEN walked.jql.v.o
                                          ELSE <<<<T_jlf_inner, walked.jql.v>>>>,
                                          UserExcluded \cup NamedFields))
                \o Repeat(NL, 1 + cli.spacing)

C9_Witness ==
    /\ SelectEvaluated
    /\ walked.jql.v = Number(7)
    /\ T_jlf_inner \notin UserExcluded
    /\ Len(line.json.v.o) = 5
    /\ Out = HeadText \o <<" ", "|", " ">> \o T_jlf_inner \o <<"=", "7", NL>>

\* what a call may leave on stdout: one whole block, ending with the newline and
\* the spacing
CompleteBlock ==
    /\ Len(buffer) >= 3
    /\ Out = BufferText(buffer)
    /\ TrailingNewlines(Out) >= 1 + cli.spacing

\* C10: when the jql query answers "Empty group" or "... not found on the parent
\* element" the record is dropped: nothing of the segments already in the buffer
\* is written, the call returns Ok and the loop goes on.  Every call writes
\* nothing, the raw line, or one complete block.
C10_SelectDropWritesNothing ==
    Called
    => /\ (IsObjectLine /\ cli.jql.some /\ ~cli.hide_extra_fields
              /\ walked.jql \in {E_empty, E_absent})
          => /\ stdout = <<>>
             /\ NamedFieldsPresent => ret = "Ok" /\ pc = "returned"
       /\ \/ stdout = <<>>
          \/ ~IsObjectLine /\ Out = line.text \o <<NL>>
          \/ IsObjectLine /\ CompleteBlock

C10_Witness ==
    /\ Called /\ IsObjectLine /\ cli.jql.some /\ ~cli.jql_filter.some
    /\ walked.jql = E_absent
    /\ ret = "Ok"
    /\ Len(buffer) = 3 /\ HasTimestampSegment
    /\ stdout = <<>>

====
